---------------------------- MODULE Spec2Model ----------------------------
(***************************************************************************)
(* A model of faker_rand (src/src/lib.rs): generators of fake data that    *)
(* are sampled with a caller-supplied, seedable random number generator.   *)
(*                                                                         *)
(* A string is a sequence of characters; a character is a one-token        *)
(* string.  Characters outside ASCII are written by code point, "U+00C9".  *)
(* The random number generator is a stream of raw words fixed by its seed  *)
(* and a position in that stream; every uniform draw takes one raw word.   *)
(***************************************************************************)
EXTENDS Naturals, Sequences, FiniteSets

VARIABLES
    stream,   \* the raw words the seeded generator yields, in order
    pos,      \* pos[i]: raw words RandomSource instance i has consumed
    script,   \* the calls made since seeding: <<generator, first output>>
    outs,     \* outs[i]: the outputs instance i produced since its seeding
    last,     \* the most recent sample call and what it did
    text,     \* the output of a wrapped generator handed to a transform
    shown,    \* what the transforms applied to text returned, in order
    calls,    \* calls[i]: the generators instance i's caller sampled, in order
    once,     \* the lazily initialised static VALUES of one file generator
    thread,   \* thread[t]: where thread t is in its sample of that generator
    stack     \* the generators entered and not yet left by a nest of samples

vars == <<stream, pos, script, outs, last, text, shown, calls, once, thread, stack>>

---------------------------------------------------------------------------
(* Bounds of the model.                                                    *)

\* Raw words a seeded stream holds: the draws one run may consume.
TapeLen == 3

\* Longest string handed to a transform on its own.
MaxStrLen == 3

\* Raw words range over 0 .. RawRange-1.  The range stands for the 2^32
\* values of a u32; it is the least common multiple of the ranges drawn
\* from in this model, so that a draw needs no rejection step.
RawRange == 2 * 3

Raw == 0 .. (RawRange - 1)

---------------------------------------------------------------------------
(* Characters.                                                             *)

LF == "LF"

Upper == << "A", "B", "C", "D", "E", "F", "G", "H", "I", "J", "K", "L", "M",
            "N", "O", "P", "Q", "R", "S", "T", "U", "V", "W", "X", "Y", "Z" >>

Lower == << "a", "b", "c", "d", "e", "f", "g", "h", "i", "j", "k", "l", "m",
            "n", "o", "p", "q", "r", "s", "t", "u", "v", "w", "x", "y", "z" >>

Range(s) == { s[i] : i \in 1 .. Len(s) }

IndexOf(s, c) == CHOOSE i \in 1 .. Len(s) : s[i] = c

UpperLetters == Range(Upper)

LowerLetters == Range(Lower)

\* char::is_ascii_lowercase
is_ascii_lowercase(c) == c \in LowerLetters

\* char::to_lowercase, as a string: the characters this model uses each
\* lowercase to one character.
to_lowercase_char(c) ==
    IF c \in UpperLetters THEN << Lower[IndexOf(Upper, c)] >>
    ELSE IF c = "U+00C9" THEN << "U+00E9" >>
    ELSE << c >>

\* char::to_uppercase, as a string: U+00DF (sharp s) uppercases to "SS".
to_uppercase_char(c) ==
    IF c \in LowerLetters THEN << Upper[IndexOf(Lower, c)] >>
    ELSE IF c = "U+00E9" THEN << "U+00C9" >>
    ELSE IF c = "U+00DF" THEN << "S", "S" >>
    ELSE << c >>

\* deunicode::deunicode_char: ASCII is kept, other characters are replaced
\* by their ASCII transliteration (U+5317 is the Han character "Bei ").
deunicode_char(c) ==
    CASE c = "U+00C9" -> << "E" >>
      [] c = "U+00E9" -> << "e" >>
      [] c = "U+00DF" -> << "s", "s" >>
      [] c = "U+5317" -> << "B", "e", "i", " " >>
      [] OTHER -> << c >>

RECURSIVE FlatMap(_, _)
\* s.chars().flat_map(f).collect()
FlatMap(kind, s) ==
    IF s = << >> THEN << >>
    ELSE (CASE kind = "deunicode" -> deunicode_char(Head(s))
            [] kind = "lower" -> to_lowercase_char(Head(s)))
         \o FlatMap(kind, Tail(s))

deunicode(s) == FlatMap("deunicode", s)

to_lowercase(s) == FlatMap("lower", s)

\* A slip of retain: only the first character that fails the test is removed.
RetainDropsFirstOnly(s) ==
    IF \A i \in 1 .. Len(s) : is_ascii_lowercase(s[i]) THEN s
    ELSE LET k == CHOOSE i \in 1 .. Len(s) :
                      /\ ~ is_ascii_lowercase(s[i])
                      /\ \A j \in 1 .. (i - 1) : is_ascii_lowercase(s[j])
         IN  SubSeq(s, 1, k - 1) \o SubSeq(s, k + 1, Len(s))

\* s.retain(|c| c.is_ascii_lowercase())
retain_ascii_lowercase(s) == SelectSeq(s, is_ascii_lowercase)

\* The transform of ToAsciiLowercase::sample on the wrapped output s.
AsciiLowercaseFilter(s) == retain_ascii_lowercase(to_lowercase(deunicode(s)))


\* What a transform returns: a string, or a panic.
Returned(by, s) == [by |-> by, ok |-> TRUE, out |-> s]

Panicked(by) == [by |-> by, ok |-> FALSE, out |-> << >>]

\* A slip of the transform: every character is uppercased, not the first.
CapitalizeAll(s) ==
    IF s = << >> THEN Panicked("CapitalizeFirstLetter")
    ELSE Returned("CapitalizeFirstLetter",
                  to_uppercase_char(Head(s))
                      \o [ i \in 1 .. (Len(s) - 1) |->
                             Head(to_uppercase_char(s[i + 1])) ])

\* The transform of CapitalizeFirstLetter::sample on the wrapped output s:
\* c.next().unwrap() panics when s has no first character.
CapitalizeFirst(s) ==
    IF s = << >> THEN Panicked("CapitalizeFirstLetter")
    ELSE Returned("CapitalizeFirstLetter", to_uppercase_char(Head(s)) \o Tail(s))

---------------------------------------------------------------------------
(* Word-list files and format strings.                                     *)

\* The carriage return.
CR == "CR"

\* A slip of the split: the file is cut at every line feed, as str::split
\* cuts it, so a final line feed is followed by one more, empty, element.
RECURSIVE linesAsSplit(_)
linesAsSplit(s) ==
    IF LF \notin Range(s) THEN << s >>
    ELSE LET k == CHOOSE i \in 1 .. Len(s) :
                      /\ s[i] = LF
                      /\ \A j \in 1 .. (i - 1) : s[j] # LF
             line == SubSeq(s, 1, k - 1)
         IN  << IF line # << >> /\ line[Len(line)] = CR
                THEN SubSeq(line, 1, Len(line) - 1) ELSE line >>
                 \o linesAsSplit(SubSeq(s, k + 1, Len(s)))

RECURSIVE lines(_)
\* str::lines: the text between line feeds, without the line feed and
\* without a carriage return right before it; a final line feed ends the
\* last line and adds no empty one.  (A file whose last line has no line
\* feed and ends in a carriage return is left out: what str::lines makes of
\* it depends on the version of the standard library.)
lines(s) ==
    IF s = << >> THEN << >>
    ELSE IF LF \notin Range(s) THEN << s >>
    ELSE LET k == CHOOSE i \in 1 .. Len(s) :
                      /\ s[i] = LF
                      /\ \A j \in 1 .. (i - 1) : s[j] # LF
             line == SubSeq(s, 1, k - 1)
         IN  << IF line # << >> /\ line[Len(line)] = CR
                THEN SubSeq(line, 1, Len(line) - 1) ELSE line >>
                 \o lines(SubSeq(s, k + 1, Len(s)))

RECURSIVE Substitute(_, _)
\* The format string fmt with each "{}" replaced by the next argument.
Substitute(fmt, args) ==
    IF fmt = << >> THEN << >>
    ELSE IF Len(fmt) >= 2 /\ fmt[1] = "{" /\ fmt[2] = "}"
         THEN Head(args) \o Substitute(SubSeq(fmt, 3, Len(fmt)), Tail(args))
         ELSE << Head(fmt) >> \o Substitute(Tail(fmt), args)

Reverse(s) == [ i \in 1 .. Len(s) |-> s[Len(s) + 1 - i] ]

\* A slip of format!: the arguments fill the placeholders last to first.
FormatReversed(fmt, args) == Substitute(fmt, Reverse(args))

\* format!(fmt, args...)
\* A slip of the formatter: the text between the placeholders is left out.
FormatWithoutLiterals(fmt, args) ==
    LET RECURSIVE Joined(_)
        Joined(a) == IF a = << >> THEN << >> ELSE Head(a) \o Joined(Tail(a))
    IN  Joined(args)

Format(fmt, args) == Substitute(fmt, args)

\* A slip of Display: the value is written as Debug writes a string, between
\* double quotes and with quotes and characters outside ASCII escaped.
DebugEscape(c) ==
    CASE c = "'" -> << "\\", "'" >>
      [] c = "LF" -> << "\\", "n" >>
      [] OTHER -> << c >>

to_string_debug(s) ==
    LET RECURSIVE Escaped(_)
        Escaped(t) == IF t = << >> THEN << >>
                      ELSE DebugEscape(Head(t)) \o Escaped(Tail(t))
    IN  << "\"" >> \o Escaped(s) \o << "\"" >>

\* Display for a generator value and ToString::to_string: write!(f, "{}", self.0)
to_string(s) == Format(<< "{", "}" >>, << s >>)

---------------------------------------------------------------------------
(* Generators.  A generator is declared either from a word-list file       *)
(* (faker_impl_from_file!), from template patterns                         *)
(* (faker_impl_from_templates!), or as a wrapper around another generator  *)
(* (util::ToAsciiLowercase<T>, util::CapitalizeFirstLetter<T>).  The data  *)
(* files are not part of the source; short word lists stand for them.      *)

FromFile(file) ==
    [kind |-> "file", file |-> file, rules |-> << >>, inner |-> ""]

FromTemplates(rules) ==
    [kind |-> "templates", file |-> << >>, rules |-> rules, inner |-> ""]

Wrapper(kind, inner) ==
    [kind |-> kind, file |-> << >>, rules |-> << >>, inner |-> inner]

\* A slip in a macro invocation: the last generator of a pattern is left
\* out.
PatternShortOfOne(fmt, args) ==
    [fmt |-> fmt, args |-> SubSeq(args, 1, Len(args) - 1)]

\* One pattern of a faker_impl_from_templates! invocation: $fmt, $arg, ...
Pattern(fmt, args) == [fmt |-> fmt, args |-> args]

FileGenerators ==
    { "PoolX", "PoolY", "PoolA", "PoolB", "AsciiDigit", "Word", "LastName",
      "Blank", "Empty" }

TemplateGenerators == { "XY", "AB", "Demo", "Biased", "FirstWord", "DomainWord" }

LowercaseGenerators == { "ToAsciiLowercase<LastName>" }

CapitalizeGenerators ==
    { "CapitalizeFirstLetter<Word>", "CapitalizeFirstLetter<Blank>",
      "CapitalizeFirstLetter<ToAsciiLowercase<LastName>>" }

Generators ==
    FileGenerators \cup TemplateGenerators \cup LowercaseGenerators
        \cup CapitalizeGenerators

\* The contents of the word-list files.
DataFile(g) ==
    CASE g = "PoolX" -> << "x", LF >>
      [] g = "PoolY" -> << "y", LF >>
      [] g = "PoolA" -> << "A", LF >>
      [] g = "PoolB" -> << "B" >>
      [] g = "AsciiDigit" -> << "5", LF, "0", LF >>
      [] g = "Word" -> << "q", "u", "i", LF, "e", "t", LF, "a", "d", LF >>
      [] g = "LastName" ->
            << "U+00C9", "b", LF, "U+00DF", "-", "Z", LF, "U+5317", LF,
               "7", "'", LF, "O", "'", "k", LF, "a", "b", LF >>
      [] g = "Blank" -> << LF, "q", LF >>
      [] g = "Empty" -> << >>

\* The template patterns of each faker_impl_from_templates! invocation.
Templates(g) ==
    CASE g = "XY" ->
            << Pattern(<< "{", "}", "-", "{", "}" >>, << "PoolX", "PoolY" >>) >>
      [] g = "AB" ->
            << Pattern(<< "{", "}", " ", "{", "}" >>, << "PoolA", "PoolB" >>) >>
      [] g = "Demo" ->
            << Pattern(<< "{", "}", ".", "{", "}" >>, << "AsciiDigit", "Word" >>),
               Pattern(<< "{", "}", " ", "~", "~", "~", " ", "{", "}" >>,
                       << "Word", "AsciiDigit" >>) >>
      [] g = "Biased" ->
            << Pattern(<< "{", "}", "!" >>, << "Word" >>),
               Pattern(<< "{", "}", "!" >>, << "Word" >>),
               Pattern(<< "{", "}", "?" >>, << "AsciiDigit" >>) >>
      [] g = "FirstWord" ->
            << Pattern(<< "{", "}" >>, << "CapitalizeFirstLetter<Word>" >>) >>
      [] g = "DomainWord" ->
            << Pattern(<< "{", "}" >>, << "ToAsciiLowercase<LastName>" >>) >>

\* The type parameter T of each wrapper.
Wrapped(g) ==
    CASE g = "ToAsciiLowercase<LastName>" -> "LastName"
      [] g = "CapitalizeFirstLetter<Word>" -> "Word"
      [] g = "CapitalizeFirstLetter<Blank>" -> "Blank"
      [] g = "CapitalizeFirstLetter<ToAsciiLowercase<LastName>>" ->
            "ToAsciiLowercase<LastName>"

---------------------------------------------------------------------------
(* The generators of the crate itself: util, lorem, en_us and fr_fr, each  *)
(* written by its module path.                                             *)

\* A generator declared over a word-list file of the crate: the file is
\* named by its path (the data files are no part of the source text).
Included(path) ==
    [kind |-> "file", file |-> path, rules |-> << >>, inner |-> ""]

\* The generators the crate declares with faker_impl_from_file!.
CrateFileGenerators ==
    { "util::AsciiDigit", "util::AsciiLowercase", "lorem::Word",
      "en_us::names::FirstName", "en_us::names::LastName",
      "en_us::names::NamePrefix", "en_us::names::NameSuffix",
      "en_us::addresses::CityPrefix", "en_us::addresses::CitySuffix",
      "en_us::addresses::StreetSuffix", "en_us::addresses::Division",
      "en_us::addresses::DivisionAbbreviation",
      "en_us::company::CompanySuffix", "en_us::company::SloganAdjective",
      "en_us::company::SloganDescriptor", "en_us::company::SloganNouns",
      "en_us::internet::DomainTLD", "fr_fr::names::FirstName",
      "fr_fr::names::LastName", "fr_fr::names::NamePrefix",
      "fr_fr::addresses::CityName", "fr_fr::addresses::StreetPrefix",
      "fr_fr::addresses::StreetSuffix", "fr_fr::addresses::Division",
      "fr_fr::company::CompanySuffix", "fr_fr::internet::DomainTLD" }

\* The generators the crate declares with faker_impl_from_templates!.
CrateTemplateGenerators ==
    { "lorem::FirstWord", "lorem::Sentence", "lorem::Paragraph",
      "lorem::Paragraphs", "en_us::names::FullName",
      "en_us::addresses::CityName", "en_us::addresses::StreetName",
      "en_us::addresses::BuildingNumber", "en_us::addresses::StreetAddress",
      "en_us::addresses::SecondaryAddress", "en_us::addresses::PostalCode",
      "en_us::addresses::Address", "en_us::company::CompanyName",
      "en_us::company::Slogan", "en_us::internet::DomainWord",
      "en_us::internet::Domain", "en_us::internet::Username",
      "en_us::internet::Email", "en_us::phones::PhoneNumber",
      "fr_fr::names::FullName", "fr_fr::addresses::StreetName",
      "fr_fr::addresses::BuildingNumber", "fr_fr::addresses::StreetAddress",
      "fr_fr::addresses::SecondaryAddress", "fr_fr::addresses::PostalCode",
      "fr_fr::addresses::Address", "fr_fr::company::CompanyName",
      "fr_fr::internet::DomainWord", "fr_fr::internet::Domain",
      "fr_fr::internet::Username", "fr_fr::internet::Email",
      "fr_fr::phones::PhoneNumber" }

\* The instances of util::ToAsciiLowercase<T> the crate samples.
CrateLowercaseGenerators ==
    { "ToAsciiLowercase<en_us::names::LastName>",
      "ToAsciiLowercase<en_us::names::FirstName>",
      "ToAsciiLowercase<fr_fr::names::LastName>",
      "ToAsciiLowercase<fr_fr::names::FirstName>" }

\* The instances of util::CapitalizeFirstLetter<T> the crate samples.
CrateCapitalizeGenerators ==
    { "CapitalizeFirstLetter<lorem::Word>" }

CrateGenerators ==
    CrateFileGenerators \cup CrateTemplateGenerators
        \cup CrateLowercaseGenerators \cup CrateCapitalizeGenerators

\* The path each faker_impl_from_file! invocation of the crate names.
CratePath(g) ==
    CASE g = "util::AsciiDigit" -> "data/ascii_digit"
      [] g = "util::AsciiLowercase" -> "data/ascii_lowercase"
      [] g = "lorem::Word" -> "data/lorem_words"
      [] g = "en_us::names::FirstName" -> "data/en_us/first_names"
      [] g = "en_us::names::LastName" -> "data/en_us/last_names"
      [] g = "en_us::names::NamePrefix" -> "data/en_us/name_prefixes"
      [] g = "en_us::names::NameSuffix" -> "data/en_us/name_suffixes"
      [] g = "en_us::addresses::CityPrefix" -> "data/en_us/city_prefixes"
      [] g = "en_us::addresses::CitySuffix" -> "data/en_us/city_suffixes"
      [] g = "en_us::addresses::StreetSuffix" -> "data/en_us/street_suffixes"
      [] g = "en_us::addresses::Division" -> "data/en_us/divisions"
      [] g = "en_us::addresses::DivisionAbbreviation" -> "data/en_us/division_abbreviations"
      [] g = "en_us::company::CompanySuffix" -> "data/en_us/company_suffixes"
      [] g = "en_us::company::SloganAdjective" -> "data/en_us/slogan_adjectives"
      [] g = "en_us::company::SloganDescriptor" -> "data/en_us/slogan_descriptors"
      [] g = "en_us::company::SloganNouns" -> "data/en_us/slogan_nouns"
      [] g = "en_us::internet::DomainTLD" -> "data/en_us/domain_tlds"
      [] g = "fr_fr::names::FirstName" -> "data/fr_fr/first_names"
      [] g = "fr_fr::names::LastName" -> "data/fr_fr/last_names"
      [] g = "fr_fr::names::NamePrefix" -> "data/fr_fr/name_prefixes"
      [] g = "fr_fr::addresses::CityName" -> "data/fr_fr/city_names"
      [] g = "fr_fr::addresses::StreetPrefix" -> "data/fr_fr/street_prefixes"
      [] g = "fr_fr::addresses::StreetSuffix" -> "data/fr_fr/street_suffixes"
      [] g = "fr_fr::addresses::Division" -> "data/fr_fr/divisions"
      [] g = "fr_fr::company::CompanySuffix" -> "data/fr_fr/company_suffixes"
      [] g = "fr_fr::internet::DomainTLD" -> "data/fr_fr/domain_tlds"

\* The patterns of each faker_impl_from_templates! invocation of the crate,
\* with the generators they name written by their full path.
CrateTemplates(g) ==
    CASE g = "lorem::FirstWord" ->
            << Pattern(<< "{", "}" >>,
                       << "CapitalizeFirstLetter<lorem::Word>" >>) >>
      [] g = "lorem::Sentence" ->
            << Pattern(<< "{", "}", " ", "{", "}", " ", "{", "}", "." >>,
                       << "lorem::FirstWord", "lorem::Word",
                          "lorem::Word" >>),
               Pattern(<< "{", "}", " ", "{", "}", " ", "{", "}", " ", "{",
                          "}", "." >>,
                       << "lorem::FirstWord", "lorem::Word", "lorem::Word",
                          "lorem::Word" >>),
               Pattern(<< "{", "}", " ", "{", "}", " ", "{", "}", " ", "{",
                          "}", " ", "{", "}", "." >>,
                       << "lorem::FirstWord", "lorem::Word", "lorem::Word",
                          "lorem::Word", "lorem::Word" >>),
               Pattern(<< "{", "}", " ", "{", "}", " ", "{", "}", " ", "{",
                          "}", " ", "{", "}", " ", "{", "}", "." >>,
                       << "lorem::FirstWord", "lorem::Word", "lorem::Word",
                          "lorem::Word", "lorem::Word", "lorem::Word" >>),
               Pattern(<< "{", "}", " ", "{", "}", " ", "{", "}", " ", "{",
                          "}", " ", "{", "}", " ", "{", "}", " ", "{", "}",
                          "." >>,
                       << "lorem::FirstWord", "lorem::Word", "lorem::Word",
                          "lorem::Word", "lorem::Word", "lorem::Word",
                          "lorem::Word" >>) >>
      [] g = "lorem::Paragraph" ->
            << Pattern(<< "{", "}", " ", "{", "}", " ", "{", "}" >>,
                       << "lorem::Sentence", "lorem::Sentence",
                          "lorem::Sentence" >>),
               Pattern(<< "{", "}", " ", "{", "}", " ", "{", "}", " ", "{",
                          "}" >>,
                       << "lorem::Sentence", "lorem::Sentence",
                          "lorem::Sentence", "lorem::Sentence" >>),
               Pattern(<< "{", "}", " ", "{", "}", " ", "{", "}", " ", "{",
                          "}", " ", "{", "}" >>,
                       << "lorem::Sentence", "lorem::Sentence",
                          "lorem::Sentence", "lorem::Sentence",
                          "lorem::Sentence" >>) >>
      [] g = "lorem::Paragraphs" ->
            << Pattern(<< "{", "}", LF, "{", "}", LF, "{", "}", LF >>,
                       << "lorem::Paragraph", "lorem::Paragraph",
                          "lorem::Paragraph" >>),
               Pattern(<< "{", "}", LF, "{", "}", LF, "{", "}", LF, "{", "}",
                          LF >>,
                       << "lorem::Paragraph", "lorem::Paragraph",
                          "lorem::Paragraph", "lorem::Paragraph" >>),
               Pattern(<< "{", "}", LF, "{", "}", LF, "{", "}", LF, "{", "}",
                          LF, "{", "}", LF >>,
                       << "lorem::Paragraph", "lorem::Paragraph",
                          "lorem::Paragraph", "lorem::Paragraph",
                          "lorem::Paragraph" >>) >>
      [] g = "en_us::names::FullName" ->
            << Pattern(<< "{", "}", " ", "{", "}" >>,
                       << "en_us::names::FirstName",
                          "en_us::names::LastName" >>),
               Pattern(<< "{", "}", " ", "{", "}", " ", "{", "}" >>,
                       << "en_us::names::NamePrefix",
                          "en_us::names::FirstName",
                          "en_us::names::LastName" >>),
               Pattern(<< "{", "}", " ", "{", "}", " ", "{", "}" >>,
                       << "en_us::names::FirstName", "en_us::names::LastName",
                          "en_us::names::NameSuffix" >>),
               Pattern(<< "{", "}", " ", "{", "}", " ", "{", "}", " ", "{",
                          "}" >>,
                       << "en_us::names::NamePrefix",
                          "en_us::names::FirstName", "en_us::names::LastName",
                          "en_us::names::NameSuffix" >>) >>
      [] g = "en_us::addresses::CityName" ->
            << Pattern(<< "{", "}", " ", "{", "}", "{", "}" >>,
                       << "en_us::addresses::CityPrefix",
                          "en_us::names::FirstName",
                          "en_us::addresses::CitySuffix" >>),
               Pattern(<< "{", "}", " ", "{", "}" >>,
                       << "en_us::addresses::CityPrefix",
                          "en_us::names::FirstName" >>),
               Pattern(<< "{", "}", "{", "}" >>,
                       << "en_us::names::FirstName",
                          "en_us::addresses::CitySuffix" >>),
               Pattern(<< "{", "}", "{", "}" >>,
                       << "en_us::names::LastName",
                          "en_us::addresses::CitySuffix" >>) >>
      [] g = "en_us::addresses::StreetName" ->
            << Pattern(<< "{", "}", " ", "{", "}" >>,
                       << "en_us::names::FirstName",
                          "en_us::addresses::StreetSuffix" >>),
               Pattern(<< "{", "}", " ", "{", "}" >>,
                       << "en_us::names::LastName",
                          "en_us::addresses::StreetSuffix" >>) >>
      [] g = "en_us::addresses::BuildingNumber" ->
            << Pattern(<< "{", "}", "{", "}", "{", "}" >>,
                       << "util::AsciiDigit", "util::AsciiDigit",
                          "util::AsciiDigit" >>),
               Pattern(<< "{", "}", "{", "}", "{", "}", "{", "}" >>,
                       << "util::AsciiDigit", "util::AsciiDigit",
                          "util::AsciiDigit", "util::AsciiDigit" >>),
               Pattern(<< "{", "}", "{", "}", "{", "}", "{", "}", "{", "}" >>,
                       << "util::AsciiDigit", "util::AsciiDigit",
                          "util::AsciiDigit", "util::AsciiDigit",
                          "util::AsciiDigit" >>) >>
      [] g = "en_us::addresses::StreetAddress" ->
            << Pattern(<< "{", "}", " ", "{", "}" >>,
                       << "en_us::addresses::BuildingNumber",
                          "en_us::addresses::StreetName" >>) >>
      [] g = "en_us::addresses::SecondaryAddress" ->
            << Pattern(<< "A", "p", "t", ".", " ", "{", "}", "{", "}", "{",
                          "}" >>,
                       << "util::AsciiDigit", "util::AsciiDigit",
                          "util::AsciiDigit" >>),
               Pattern(<< "S", "u", "i", "t", "e", " ", "{", "}", "{", "}",
                          "{", "}" >>,
                       << "util::AsciiDigit", "util::AsciiDigit",
                          "util::AsciiDigit" >>) >>
      [] g = "en_us::addresses::PostalCode" ->
            << Pattern(<< "{", "}", "{", "}", "{", "}", "{", "}", "{", "}" >>,
                       << "util::AsciiDigit", "util::AsciiDigit",
                          "util::AsciiDigit", "util::AsciiDigit",
                          "util::AsciiDigit" >>),
               Pattern(<< "{", "}", "{", "}", "{", "}", "{", "}", "{", "}",
                          "-", "{", "}", "{", "}", "{", "}", "{", "}" >>,
                       << "util::AsciiDigit", "util::AsciiDigit",
                          "util::AsciiDigit", "util::AsciiDigit",
                          "util::AsciiDigit", "util::AsciiDigit",
                          "util::AsciiDigit", "util::AsciiDigit",
                          "util::AsciiDigit" >>) >>
      [] g = "en_us::addresses::Address" ->
            << Pattern(<< "{", "}", LF, "{", "}", LF, "{", "}", ",", " ", "{",
                          "}", " ", "{", "}", LF >>,
                       << "en_us::names::FullName",
                          "en_us::addresses::StreetAddress",
                          "en_us::addresses::CityName",
                          "en_us::addresses::DivisionAbbreviation",
                          "en_us::addresses::PostalCode" >>),
               Pattern(<< "{", "}", LF, "{", "}", " ", "{", "}", LF, "{", "}",
                          ",", " ", "{", "}", " ", "{", "}", LF >>,
                       << "en_us::names::FullName",
                          "en_us::addresses::StreetAddress",
                          "en_us::addresses::SecondaryAddress",
                          "en_us::addresses::CityName",
                          "en_us::addresses::DivisionAbbreviation",
                          "en_us::addresses::PostalCode" >>) >>
      [] g = "en_us::company::CompanyName" ->
            << Pattern(<< "{", "}", " ", "{", "}" >>,
                       << "en_us::names::FirstName",
                          "en_us::company::CompanySuffix" >>),
               Pattern(<< "{", "}", "-", "{", "}" >>,
                       << "en_us::names::LastName",
                          "en_us::names::LastName" >>),
               Pattern(<< "{", "}", ",", " ", "{", "}", ",", " ", "a", "n",
                          "d", " ", "{", "}" >>,
                       << "en_us::names::LastName", "en_us::names::LastName",
                          "en_us::names::LastName" >>) >>
      [] g = "en_us::company::Slogan" ->
            << Pattern(<< "{", "}", " ", "{", "}", " ", "{", "}" >>,
                       << "en_us::company::SloganAdjective",
                          "en_us::company::SloganDescriptor",
                          "en_us::company::SloganNouns" >>) >>
      [] g = "en_us::internet::DomainWord" ->
            << Pattern(<< "{", "}" >>,
                       << "ToAsciiLowercase<en_us::names::LastName>" >>) >>
      [] g = "en_us::internet::Domain" ->
            << Pattern(<< "{", "}", ".", "{", "}" >>,
                       << "en_us::internet::DomainWord",
                          "en_us::internet::DomainTLD" >>) >>
      [] g = "en_us::internet::Username" ->
            << Pattern(<< "{", "}", "{", "}" >>,
                       << "util::AsciiLowercase",
                          "ToAsciiLowercase<en_us::names::LastName>" >>),
               Pattern(<< "{", "}", "{", "}", "{", "}" >>,
                       << "util::AsciiLowercase",
                          "ToAsciiLowercase<en_us::names::LastName>",
                          "util::AsciiDigit" >>),
               Pattern(<< "{", "}", "{", "}", "{", "}", "{", "}" >>,
                       << "util::AsciiLowercase",
                          "ToAsciiLowercase<en_us::names::LastName>",
                          "util::AsciiDigit", "util::AsciiDigit" >>),
               Pattern(<< "{", "}", "{", "}" >>,
                       << "ToAsciiLowercase<en_us::names::FirstName>",
                          "ToAsciiLowercase<en_us::names::LastName>" >>) >>
      [] g = "en_us::internet::Email" ->
            << Pattern(<< "{", "}", "@", "{", "}" >>,
                       << "en_us::internet::Username",
                          "en_us::internet::Domain" >>) >>
      [] g = "en_us::phones::PhoneNumber" ->
            << Pattern(<< "(", "{", "}", "{", "}", "{", "}", ")", " ", "{",
                          "}", "{", "}", "{", "}", "-", "{", "}", "{", "}",
                          "{", "}", "{", "}" >>,
                       << "util::AsciiDigit", "util::AsciiDigit",
                          "util::AsciiDigit", "util::AsciiDigit",
                          "util::AsciiDigit", "util::AsciiDigit",
                          "util::AsciiDigit", "util::AsciiDigit",
                          "util::AsciiDigit", "util::AsciiDigit" >>) >>
      [] g = "fr_fr::names::FullName" ->
            << Pattern(<< "{", "}", " ", "{", "}" >>,
                       << "fr_fr::names::FirstName",
                          "fr_fr::names::LastName" >>),
               Pattern(<< "{", "}", " ", "{", "}", " ", "{", "}" >>,
                       << "fr_fr::names::NamePrefix",
                          "fr_fr::names::FirstName",
                          "fr_fr::names::LastName" >>) >>
      [] g = "fr_fr::addresses::StreetName" ->
            << Pattern(<< "{", "}", " ", "{", "}" >>,
                       << "fr_fr::addresses::StreetPrefix",
                          "fr_fr::addresses::StreetSuffix" >>) >>
      [] g = "fr_fr::addresses::BuildingNumber" ->
            << Pattern(<< "{", "}" >>,
                       << "util::AsciiDigit" >>),
               Pattern(<< "{", "}", "{", "}" >>,
                       << "util::AsciiDigit", "util::AsciiDigit" >>),
               Pattern(<< "{", "}", "{", "}", "{", "}" >>,
                       << "util::AsciiDigit", "util::AsciiDigit",
                          "util::AsciiDigit" >>) >>
      [] g = "fr_fr::addresses::StreetAddress" ->
            << Pattern(<< "{", "}", " ", "{", "}" >>,
                       << "fr_fr::addresses::BuildingNumber",
                          "fr_fr::addresses::StreetName" >>) >>
      [] g = "fr_fr::addresses::SecondaryAddress" ->
            << Pattern(<< "A", "p", "t", ".", " ", "{", "}", "{", "}", "{",
                          "}" >>,
                       << "util::AsciiDigit", "util::AsciiDigit",
                          "util::AsciiDigit" >>),
               Pattern(<< "{", "}", " ", "U+00E9", "t", "a", "g", "e" >>,
                       << "util::AsciiDigit" >>) >>
      [] g = "fr_fr::addresses::PostalCode" ->
            << Pattern(<< "{", "}", "{", "}", "{", "}", "{", "}", "{", "}" >>,
                       << "util::AsciiDigit", "util::AsciiDigit",
                          "util::AsciiDigit", "util::AsciiDigit",
                          "util::AsciiDigit" >>) >>
      [] g = "fr_fr::addresses::Address" ->
            << Pattern(<< "{", "}", LF, "{", "}", LF, "{", "}", " ", "{", "}",
                          LF, "F", "R", "A", "N", "C", "E", LF >>,
                       << "fr_fr::names::FullName",
                          "fr_fr::addresses::StreetAddress",
                          "fr_fr::addresses::PostalCode",
                          "fr_fr::addresses::CityName" >>),
               Pattern(<< "{", "}", LF, "{", "}", LF, "{", "}", LF, "{", "}",
                          " ", "{", "}", LF, "F", "R", "A", "N", "C", "E",
                          LF >>,
                       << "fr_fr::names::FullName",
                          "fr_fr::addresses::SecondaryAddress",
                          "fr_fr::addresses::StreetAddress",
                          "fr_fr::addresses::PostalCode",
                          "fr_fr::addresses::CityName" >>) >>
      [] g = "fr_fr::company::CompanyName" ->
            << Pattern(<< "{", "}", " ", "{", "}" >>,
                       << "fr_fr::names::FirstName",
                          "fr_fr::company::CompanySuffix" >>) >>
      [] g = "fr_fr::internet::DomainWord" ->
            << Pattern(<< "{", "}" >>,
                       << "ToAsciiLowercase<fr_fr::names::LastName>" >>) >>
      [] g = "fr_fr::internet::Domain" ->
            << Pattern(<< "{", "}", ".", "{", "}" >>,
                       << "fr_fr::internet::DomainWord",
                          "fr_fr::internet::DomainTLD" >>) >>
      [] g = "fr_fr::internet::Username" ->
            << Pattern(<< "{", "}", "{", "}" >>,
                       << "util::AsciiLowercase",
                          "ToAsciiLowercase<fr_fr::names::LastName>" >>),
               Pattern(<< "{", "}", "{", "}", "{", "}" >>,
                       << "util::AsciiLowercase",
                          "ToAsciiLowercase<fr_fr::names::LastName>",
                          "util::AsciiDigit" >>),
               Pattern(<< "{", "}", "{", "}", "{", "}", "{", "}" >>,
                       << "util::AsciiLowercase",
                          "ToAsciiLowercase<fr_fr::names::LastName>",
                          "util::AsciiDigit", "util::AsciiDigit" >>),
               Pattern(<< "{", "}", "{", "}" >>,
                       << "ToAsciiLowercase<fr_fr::names::FirstName>",
                          "ToAsciiLowercase<fr_fr::names::LastName>" >>) >>
      [] g = "fr_fr::internet::Email" ->
            << Pattern(<< "{", "}", "@", "{", "}" >>,
                       << "fr_fr::internet::Username",
                          "fr_fr::internet::Domain" >>) >>
      [] g = "fr_fr::phones::PhoneNumber" ->
            << Pattern(<< "0", "{", "}", " ", "{", "}", "{", "}", " ", "{",
                          "}", "{", "}", " ", "{", "}", "{", "}", " ", "{",
                          "}", "{", "}" >>,
                       << "util::AsciiDigit", "util::AsciiDigit",
                          "util::AsciiDigit", "util::AsciiDigit",
                          "util::AsciiDigit", "util::AsciiDigit",
                          "util::AsciiDigit", "util::AsciiDigit",
                          "util::AsciiDigit" >>) >>

\* The type parameter T of each wrapper instance of the crate.
CrateWrapped(g) ==
    CASE g = "ToAsciiLowercase<en_us::names::LastName>" ->
            "en_us::names::LastName"
      [] g = "ToAsciiLowercase<en_us::names::FirstName>" ->
            "en_us::names::FirstName"
      [] g = "ToAsciiLowercase<fr_fr::names::LastName>" ->
            "fr_fr::names::LastName"
      [] g = "ToAsciiLowercase<fr_fr::names::FirstName>" ->
            "fr_fr::names::FirstName"
      [] g = "CapitalizeFirstLetter<lorem::Word>" ->
            "lorem::Word"

\* The crate: every generator it declares or samples.
Crate ==
    [ g \in CrateGenerators |->
        IF g \in CrateFileGenerators THEN Included(CratePath(g))
        ELSE IF g \in CrateTemplateGenerators
        THEN FromTemplates(CrateTemplates(g))
        ELSE IF g \in CrateLowercaseGenerators
        THEN Wrapper("ToAsciiLowercase", CrateWrapped(g))
        ELSE Wrapper("CapitalizeFirstLetter", CrateWrapped(g)) ]


---------------------------------------------------------------------------

\* The contents taken for the two data files whose contents the sampled
\* generators of the crate depend on: the ten digits, one a line, and a
\* list of lowercase words.
Assumed(path) ==
    CASE path = "data/ascii_digit" ->
            << "0", LF, "1", LF, "2", LF, "3", LF, "4", LF, "5", LF, "6", LF,
               "7", LF, "8", LF, "9", LF >>
      [] path = "data/lorem_words" ->
            << "a", LF, "e", "t", LF, "q", "u", "i", LF >>

\* The generators of the crate that are sampled: lorem::Sentence, the
\* PostalCode of en_us and of fr_fr, and the generators they sample.
SampledFromCrate ==
    { "util::AsciiDigit", "en_us::addresses::PostalCode", "lorem::Word",
      "CapitalizeFirstLetter<lorem::Word>", "lorem::FirstWord",
      "lorem::Sentence", "fr_fr::addresses::PostalCode" }

Catalog ==
    [ g \in Generators \cup SampledFromCrate |->
        IF g \in SampledFromCrate
        THEN (IF g \in CrateFileGenerators
              THEN FromFile(Assumed(Crate[g].file))
              ELSE Crate[g])
        ELSE IF g \in FileGenerators THEN FromFile(DataFile(g))
        ELSE IF g \in TemplateGenerators THEN FromTemplates(Templates(g))
        ELSE IF g \in LowercaseGenerators THEN Wrapper("ToAsciiLowercase", Wrapped(g))
        ELSE Wrapper("CapitalizeFirstLetter", Wrapped(g)) ]

---------------------------------------------------------------------------
(* Sampling.  sample(g, tape, p) is rng.gen::<g>() on a generator whose    *)
(* stream is tape and which has consumed p raw words.  It returns          *)
(*   ok      whether the call returned (FALSE: it panicked, or starved),   *)
(*   starved whether the tape ran out (the model's bound, not the code),   *)
(*   out     the string of the value returned,                             *)
(*   pos     the raw words consumed when the call ended,                   *)
(*   rule    the template pattern chosen (0 when g has none),              *)
(*   draws   the uniform draws made, in order, by every generator sampled, *)
(*   subs    the sub-generators g sampled itself, in the order sampled.    *)

\* rng.gen_range(0..n) on the raw word u: one of 0 .. n-1, each for the
\* same number of raw words.
gen_range(u, n) == (u * n) \div RawRange

\* A slip of the slice index: the element after the one drawn.
ElementAfter(values, i) == values[((i + 1) % Len(values)) + 1]

\* VALUES[i].clone()
Element(values, i) == values[i + 1]

\* include_str!(file).lines().map(String::from).collect(), per generator.
Collected ==
    [ g \in FileGenerators \cup (SampledFromCrate \cap CrateFileGenerators) |->
        lines(Catalog[g].file) ]

\* lazy_static VALUES: the lines of the included file.
VALUES(g) == Collected[g]

RECURSIVE Deduplicated(_)
Deduplicated(s) ==
    IF s = << >> THEN << >>
    ELSE LET front == Deduplicated(SubSeq(s, 1, Len(s) - 1))
         IN  IF s[Len(s)] \in Range(front) THEN front
             ELSE Append(front, s[Len(s)])

\* A slip of the macro: a pattern given twice is kept once.
funcsDeduplicated(g) == Deduplicated(Catalog[g].rules)

\* The vector funcs: one closure per template pattern, in the order given.
funcs(g) == Catalog[g].rules

\* A slip of choose: the last element is never chosen.
chooseSkipsLast(u, n) == IF n > 1 THEN gen_range(u, n - 1) ELSE 0

\* SliceRandom::choose on a slice of n > 0 elements: the index drawn.
choose(u, n) == gen_range(u, n)

\* A slip of the expansion: the arguments are evaluated last to first.
ArgOrderReversed(k) == [ j \in 1 .. k |-> k + 1 - j ]

\* The order in which format! evaluates its k arguments.
ArgOrder(k) == [ j \in 1 .. k |-> j ]

Draw(g, n, at, val) == [gen |-> g, n |-> n, at |-> at, val |-> val]

Sub(ref, g, from, r) ==
    [ref |-> ref, gen |-> g, from |-> from, to |-> r.pos, out |-> r.out,
     ok |-> r.ok]

Failed(starved, p, rule, draws, subs) ==
    [ok |-> FALSE, starved |-> starved, out |-> << >>, pos |-> p,
     rule |-> rule, draws |-> draws, subs |-> subs]

Done(out, p, rule, draws, subs) ==
    [ok |-> TRUE, starved |-> FALSE, out |-> out, pos |-> p, rule |-> rule,
     draws |-> draws, subs |-> subs]

\* The outputs of the sub-generators by the place they take in the pattern.
ByRef(subs) ==
    [ j \in 1 .. Len(subs) |->
        (CHOOSE k \in 1 .. Len(subs) : subs[k].ref = j) ]

ArgStrings(subs) == [ j \in 1 .. Len(subs) |-> to_string(subs[ByRef(subs)[j]].out) ]

RECURSIVE sample(_, _, _)
RECURSIVE sampleArgs(_, _, _, _)

\* The arguments of one format! call, sampled one after the other; a panic
\* in one of them ends the call there.
sampleArgs(args, order, tape, p) ==
    IF order = << >> THEN Done(<< >>, p, 0, << >>, << >>)
    ELSE LET j == Head(order)
             r == sample(args[j], tape, p)
             sub == Sub(j, args[j], p, r)
         IN  IF ~ r.ok THEN Failed(r.starved, r.pos, 0, r.draws, << sub >>)
             ELSE LET rest == sampleArgs(args, Tail(order), tape, r.pos)
                  IN  [rest EXCEPT !.draws = r.draws \o @,
                                   !.subs = << sub >> \o @]

\* faker_impl_from_file!: Distribution::sample
sampleFromFile(g, tape, p) ==
    LET n == Len(VALUES(g))
    IN  IF n = 0 THEN Failed(FALSE, p, 0, << >>, << >>)
        ELSE IF p >= Len(tape) THEN Failed(TRUE, p, 0, << >>, << >>)
        ELSE LET i == gen_range(tape[p + 1], n)
             IN  Done(Element(VALUES(g), i), p + 1, 0,
                      << Draw(g, n, p + 1, i) >>, << >>)

RECURSIVE AllArgs(_)
AllArgs(rules) ==
    IF rules = << >> THEN << >> ELSE Head(rules).args \o AllArgs(Tail(rules))

\* A slip of the macro: the arguments of every pattern are sampled first,
\* the selection draw is made after them and the selected pattern is
\* filled from the values already made.
sampleFromTemplatesEager(g, tape, p) ==
    LET n == Len(funcs(g))
        all == AllArgs(funcs(g))
        a == sampleArgs(all, ArgOrder(Len(all)), tape, p)
    IN  IF n = 0 THEN Failed(FALSE, p, 0, << >>, << >>)
        ELSE IF ~ a.ok THEN Failed(a.starved, a.pos, 0, a.draws, a.subs)
        ELSE IF a.pos >= Len(tape) THEN Failed(TRUE, a.pos, 0, a.draws, a.subs)
        ELSE LET i == choose(tape[a.pos + 1], n)
                 f == funcs(g)[i + 1]
                 d == Draw(g, n, a.pos + 1, i)
                 skip == Len(AllArgs(SubSeq(funcs(g), 1, i)))
                 mine == [ j \in 1 .. Len(f.args) |->
                             to_string(a.subs[skip + j].out) ]
             IN  Done(Format(f.fmt, mine), a.pos + 1, i + 1,
                      a.draws \o << d >>, a.subs)

\* A slip of the macro: a generator with one pattern makes no selection
\* draw, there being nothing to select.
sampleFromTemplatesNoDrawForOne(g, tape, p) ==
    LET n == Len(funcs(g))
        q == IF n = 1 THEN p ELSE p + 1
    IN  IF n = 0 THEN Failed(FALSE, p, 0, << >>, << >>)
        ELSE IF n > 1 /\ p >= Len(tape) THEN Failed(TRUE, p, 0, << >>, << >>)
        ELSE LET i == IF n = 1 THEN 0 ELSE choose(tape[p + 1], n)
                 f == funcs(g)[i + 1]
                 d == IF n = 1 THEN << >> ELSE << Draw(g, n, p + 1, i) >>
                 a == sampleArgs(f.args, ArgOrder(Len(f.args)), tape, q)
             IN  IF ~ a.ok
                 THEN Failed(a.starved, a.pos, i + 1, d \o a.draws, a.subs)
                 ELSE Done(Format(f.fmt, ArgStrings(a.subs)), a.pos, i + 1,
                           d \o a.draws, a.subs)

\* faker_impl_from_templates!: Distribution::sample
sampleFromTemplates(g, tape, p) ==
    LET n == Len(funcs(g))
    IN  IF n = 0 THEN Failed(FALSE, p, 0, << >>, << >>)
        ELSE IF p >= Len(tape) THEN Failed(TRUE, p, 0, << >>, << >>)
        ELSE LET i == choose(tape[p + 1], n)
                 f == funcs(g)[i + 1]
                 d == Draw(g, n, p + 1, i)
                 a == sampleArgs(f.args, ArgOrder(Len(f.args)), tape, p + 1)
             IN  IF ~ a.ok
                 THEN Failed(a.starved, a.pos, i + 1, << d >> \o a.draws, a.subs)
                 ELSE Done(Format(f.fmt, ArgStrings(a.subs)), a.pos, i + 1,
                           << d >> \o a.draws, a.subs)

\* A slip of the wrapper: T is sampled a second time and the second value
\* is the one transformed.
sampleToAsciiLowercaseResampled(g, tape, p) ==
    LET T == Catalog[g].inner
        first == sample(T, tape, p)
        r == IF first.ok THEN sample(T, tape, first.pos) ELSE first
        sub == Sub(1, T, p, r)
    IN  IF ~ r.ok THEN Failed(r.starved, r.pos, 0, first.draws, << sub >>)
        ELSE Done(AsciiLowercaseFilter(to_string(r.out)), r.pos, 0,
                  first.draws \o r.draws, << sub >>)

\* util::ToAsciiLowercase<T>: Distribution::sample
sampleToAsciiLowercase(g, tape, p) ==
    LET T == Catalog[g].inner
        r == sample(T, tape, p)
        sub == Sub(1, T, p, r)
    IN  IF ~ r.ok THEN Failed(r.starved, r.pos, 0, r.draws, << sub >>)
        ELSE Done(AsciiLowercaseFilter(to_string(r.out)), r.pos, 0, r.draws,
                  << sub >>)

\* util::CapitalizeFirstLetter<T>: Distribution::sample
sampleCapitalizeFirstLetter(g, tape, p) ==
    LET T == Catalog[g].inner
        r == sample(T, tape, p)
        sub == Sub(1, T, p, r)
    IN  IF ~ r.ok THEN Failed(r.starved, r.pos, 0, r.draws, << sub >>)
        ELSE LET c == CapitalizeFirst(to_string(r.out))
             IN  IF ~ c.ok THEN Failed(FALSE, r.pos, 0, r.draws, << sub >>)
                 ELSE Done(c.out, r.pos, 0, r.draws, << sub >>)

sample(g, tape, p) ==
    CASE Catalog[g].kind = "file" -> sampleFromFile(g, tape, p)
      [] Catalog[g].kind = "templates" -> sampleFromTemplates(g, tape, p)
      [] Catalog[g].kind = "ToAsciiLowercase" -> sampleToAsciiLowercase(g, tape, p)
      [] Catalog[g].kind = "CapitalizeFirstLetter" ->
            sampleCapitalizeFirstLetter(g, tape, p)

---------------------------------------------------------------------------
(* The callers.  Each RandomSource instance is created from the same seed  *)
(* (SeedableRng::seed_from_u64), so each reads the same stream from its    *)
(* own position.                                                           *)

Inst == { 1, 2 }

Tapes == [ 1 .. TapeLen -> Raw ]

NoCall ==
    [inst |-> 0, gen |-> "", from |-> 0, res |-> Done(<< >>, 0, 0, << >>, << >>),
     str |-> << >>]

\* The characters of the strings handed to a transform on its own.
TextChars ==
    { "a", "B", "7", "-", " ", "U+00C9", "U+00E9", "U+00DF", "U+5317" }

RECURSIVE Strings(_)
Strings(n) ==
    IF n = 0 THEN { << >> }
    ELSE LET shorter == Strings(n - 1)
         IN  shorter \cup { Append(s, c) : s \in shorter, c \in TextChars }

\* The threads that sample the generator whose static VALUES is followed.
Threads == { "t1", "t2", "t3" }

\* The file generator whose static VALUES is followed.
LazyPool == "Word"

\* lazy_static!: the static before its first use: not initialised, no value.
Lazy == [state |-> "INCOMPLETE", value |-> << >>, builds |-> 0]

\* A thread outside a sample: the samples it made, the value its last
\* sample returned and the VALUES that sample read.
Idle(reads, seen, view) ==
    [pc |-> "idle", local |-> << >>, reads |-> reads, seen |-> seen,
     view |-> view]

\* The generators the two instances are driven with in step.
ScriptGenerators == { "Word", "FirstWord", "Demo" }

\* A slip: the generators draw from one shared generator state.
SharedRng(i) == pos[1]

\* The state of the rng a caller passes to sample: its own.
RngState(i) == pos[i]

\* SeedableRng::seed_from_u64: the stream of the seed, from its start.
seed_from_u64 == 0

Init ==
    /\ stream \in Tapes
    /\ pos = [ i \in Inst |-> seed_from_u64 ]
    /\ script = << >>
    /\ outs = [ i \in Inst |-> << >> ]
    /\ last = NoCall
    /\ text = << >>
    /\ shown = << >>
    /\ calls = [ i \in Inst |-> << >> ]
    /\ once = Lazy
    /\ thread = [ t \in Threads |-> Idle(0, << >>, << >>) ]
    /\ stack = << >>

\* rng.gen::<g>() by the caller that owns instance 1, and to_string() of the
\* value where the call returned one.
Sample(g) ==
    /\ last.res.ok
    /\ LET r == sample(g, stream, RngState(1))
       IN  /\ ~ r.starved
           /\ pos' = [pos EXCEPT ![1] = r.pos]
           /\ last' = [inst |-> 1, gen |-> g, from |-> RngState(1), res |-> r,
                       str |-> IF r.ok THEN to_string(r.out) ELSE << >>]
    /\ UNCHANGED << stream, script, outs, text, shown, calls,
                 once, thread, stack >>

Next == \E g \in Generators : Sample(g)

Spec == Init /\ [][Next]_vars

\* rng.gen::<g>().to_string() by the caller that owns instance i, as the
\* next call of the script both callers follow.
Call(i, g) ==
    /\ LET k == Len(outs[i]) + 1
           r == sample(g, stream, RngState(i))
       IN  /\ k <= Len(script) => g = script[k].gen
           /\ r.ok
           /\ pos' = [pos EXCEPT ![i] = r.pos]
           /\ outs' = [outs EXCEPT ![i] = Append(@, to_string(r.out))]
           /\ script' = IF k <= Len(script) THEN script
                        ELSE Append(script, [gen |-> g, out |-> to_string(r.out)])
    /\ UNCHANGED << stream, last, text, shown, calls,
                 once, thread, stack >>

\* let mut rng = ChaCha8Rng::seed_from_u64(0), again.
Reseed(i) ==
    /\ outs[i] # << >>
    /\ pos' = [pos EXCEPT ![i] = seed_from_u64]
    /\ outs' = [outs EXCEPT ![i] = << >>]
    /\ UNCHANGED << stream, script, last, text, shown, calls,
                 once, thread, stack >>

NextScript ==
    \/ \E i \in Inst, g \in ScriptGenerators : Call(i, g)
    \/ \E i \in Inst : Reseed(i)

SpecScript == Init /\ [][NextScript]_vars

\* How many transforms are applied to one string.
MaxApplied == 2

InitText ==
    /\ stream = << >>
    /\ pos = [ i \in Inst |-> seed_from_u64 ]
    /\ script = << >>
    /\ outs = [ i \in Inst |-> << >> ]
    /\ last = NoCall
    /\ text \in Strings(MaxStrLen)
    /\ shown = << >>
    /\ calls = [ i \in Inst |-> << >> ]
    /\ once = Lazy
    /\ thread = [ t \in Threads |-> Idle(0, << >>, << >>) ]
    /\ stack = << >>

\* The string the next transform is handed: text, or what the last one made.
Current == IF shown = << >> THEN text ELSE shown[Len(shown)].out

Alive == \A k \in 1 .. Len(shown) : shown[k].ok

\* ToAsciiLowercase::sample on a wrapped generator that returned Current.
ApplyToAsciiLowercase ==
    /\ Alive
    /\ Len(shown) < MaxApplied
    /\ shown' = Append(shown, Returned("ToAsciiLowercase",
                                       AsciiLowercaseFilter(to_string(Current))))
    /\ UNCHANGED << stream, pos, script, outs, last, text, calls,
                 once, thread, stack >>

\* CapitalizeFirstLetter::sample on a wrapped generator that returned Current.
ApplyCapitalizeFirstLetter ==
    /\ Alive
    /\ Len(shown) < MaxApplied
    /\ shown' = Append(shown, CapitalizeFirst(to_string(Current)))
    /\ UNCHANGED << stream, pos, script, outs, last, text, calls,
                 once, thread, stack >>

NextText == ApplyToAsciiLowercase \/ ApplyCapitalizeFirstLetter

SpecText == InitText /\ [][NextText]_vars

---------------------------------------------------------------------------
(* Callers with a generator each.  Every caller owns one instance, created *)
(* from the seed, and samples what it likes when it likes; VALUES and the  *)
(* patterns are the ones every caller reads.                               *)

\* rng.gen::<g>().to_string() by the caller that owns instance i.
CallerSample(i, g) ==
    /\ LET r == sample(g, stream, RngState(i))
       IN  /\ r.ok
           /\ pos' = [pos EXCEPT ![i] = r.pos]
           /\ outs' = [outs EXCEPT ![i] = Append(@, to_string(r.out))]
           /\ calls' = [calls EXCEPT ![i] = Append(@, g)]
    /\ UNCHANGED << stream, script, last, text, shown, once, thread, stack >>

NextCallers == \E i \in Inst, g \in ScriptGenerators : CallerSample(i, g)

SpecCallers == Init /\ [][NextCallers]_vars

---------------------------------------------------------------------------
(* The static VALUES of a file generator.  lazy_static! gives the static a  *)
(* Once: the first thread to use VALUES runs the initialiser, the threads  *)
(* that use it meanwhile block until the Once is complete, and every later *)
(* use reads the value stored.  Each thread samples with a generator of    *)
(* its own, so a draw is any raw word.                                     *)

\* Samples one thread makes.
MaxReads == 2

\* A slip of the Once: a thread that finds the initialiser running runs it
\* as well.
ClaimsWhileRunning(state) == state # "COMPLETE"

\* Once::call_once: the thread that finds the Once incomplete claims it.
Claims(state) == state = "INCOMPLETE"

\* A slip of sample: the element read is moved out of VALUES.
IndexRemove(values, i) ==
    SubSeq(values, 1, i) \o SubSeq(values, i + 2, Len(values))

\* VALUES[i].clone(): VALUES after the element at index i was read.
IndexClone(values, i) == values

\* No thread has used VALUES yet; the threads' generators are their own and
\* are not followed.
InitLazy ==
    /\ stream = << >>
    /\ pos = [ i \in Inst |-> seed_from_u64 ]
    /\ script = << >>
    /\ outs = [ i \in Inst |-> << >> ]
    /\ last = NoCall
    /\ text = << >>
    /\ shown = << >>
    /\ calls = [ i \in Inst |-> << >> ]
    /\ once = Lazy
    /\ thread = [ t \in Threads |-> Idle(0, << >>, << >>) ]
    /\ stack = << >>

\* The first step of a sample: VALUES.len() dereferences the static.
Deref(t) ==
    /\ thread[t].pc = "idle"
    /\ thread[t].reads < MaxReads
    /\ IF once.state = "COMPLETE"
       THEN /\ thread' = [thread EXCEPT ![t].pc = "index"]
            /\ once' = once
       ELSE IF Claims(once.state)
       THEN /\ thread' = [thread EXCEPT ![t].pc = "collect"]
            /\ once' = [once EXCEPT !.state = "RUNNING"]
       ELSE /\ thread' = [thread EXCEPT ![t].pc = "wait"]
            /\ once' = once
    /\ UNCHANGED << stream, pos, script, outs, last, text, shown, calls, stack >>

\* The initialiser: include_str!(file).lines().map(String::from).collect(),
\* one line at a time into a vector of the thread's own.
Collect(t) ==
    /\ thread[t].pc = "collect"
    /\ Len(thread[t].local) < Len(VALUES(LazyPool))
    /\ thread' = [thread EXCEPT ![t].local =
                      Append(@, VALUES(LazyPool)[Len(@) + 1])]
    /\ UNCHANGED << stream, pos, script, outs, last, text, shown, calls, once,
                    stack >>

\* The vector collected is stored as the value of the static.
Store(t) ==
    /\ thread[t].pc = "collect"
    /\ Len(thread[t].local) = Len(VALUES(LazyPool))
    /\ once' = [once EXCEPT !.value = thread[t].local, !.builds = @ + 1]
    /\ thread' = [thread EXCEPT ![t].pc = "complete", ![t].local = << >>]
    /\ UNCHANGED << stream, pos, script, outs, last, text, shown, calls, stack >>

\* The Once is marked complete.
Complete(t) ==
    /\ thread[t].pc = "complete"
    /\ once' = [once EXCEPT !.state = "COMPLETE"]
    /\ thread' = [thread EXCEPT ![t].pc = "index"]
    /\ UNCHANGED << stream, pos, script, outs, last, text, shown, calls, stack >>

\* A thread blocked on the Once goes on when the Once is complete.
Wake(t) ==
    /\ thread[t].pc = "wait"
    /\ once.state = "COMPLETE"
    /\ thread' = [thread EXCEPT ![t].pc = "index"]
    /\ UNCHANGED << stream, pos, script, outs, last, text, shown, calls, once,
                    stack >>

\* VALUES[rng.gen_range(0..VALUES.len())].clone()
Index(t) ==
    /\ thread[t].pc = "index"
    /\ Len(once.value) > 0
    /\ \E u \in Raw :
          LET i == gen_range(u, Len(once.value))
          IN  /\ thread' = [thread EXCEPT ![t] =
                               Idle(@.reads + 1, Element(once.value, i),
                                    once.value)]
              /\ once' = [once EXCEPT !.value = IndexClone(@, i)]
    /\ UNCHANGED << stream, pos, script, outs, last, text, shown, calls, stack >>

NextLazy ==
    \E t \in Threads :
        \/ Deref(t)
        \/ Collect(t)
        \/ Store(t)
        \/ Complete(t)
        \/ Wake(t)
        \/ Index(t)

SpecLazy == InitLazy /\ [][NextLazy]_vars

---------------------------------------------------------------------------
(* The nest of samples one call makes.  A call of a generator selects a    *)
(* pattern (a template generator), then samples its sub-generators one     *)
(* after the other, each of which is a call of its own; a call of a file   *)
(* generator samples nothing.  stack holds the calls that have begun and   *)
(* not returned, the outermost first.                                      *)

\* The deepest nest of calls followed.
MaxDepth == 8

\* A slip of a wrapper: it samples its own type where it should sample T.
RefsWrapperItself(g, rule) ==
    IF Crate[g].kind = "templates" THEN Crate[g].rules[rule].args
    ELSE IF Crate[g].kind = "file" THEN << >>
    ELSE << g >>

\* The generators a call of g samples, in order, once it has selected the
\* pattern rule: the $arg of that pattern, the T of a wrapper, nothing for
\* a file generator.
Refs(g, rule) ==
    IF Crate[g].kind = "templates" THEN Crate[g].rules[rule].args
    ELSE IF Crate[g].kind = "file" THEN << >>
    ELSE << Crate[g].inner >>

\* The patterns a call of g can select (0: g has none).
Rules(g) ==
    IF Crate[g].kind = "templates" THEN 1 .. Len(Crate[g].rules) ELSE { 0 }

\* A call of g that selected rule and samples its next-th sub-generator next.
Frame(g, rule, next) == [gen |-> g, rule |-> rule, next |-> next]

InitWalk ==
    /\ stream = << >>
    /\ pos = [ i \in Inst |-> seed_from_u64 ]
    /\ script = << >>
    /\ outs = [ i \in Inst |-> << >> ]
    /\ last = NoCall
    /\ text = << >>
    /\ shown = << >>
    /\ calls = [ i \in Inst |-> << >> ]
    /\ once = Lazy
    /\ thread = [ t \in Threads |-> Idle(0, << >>, << >>) ]
    /\ stack = << >>

\* rng.gen::<g>() by the caller, for any generator of the crate.
Enter(g) ==
    /\ stack = << >>
    /\ \E rule \in Rules(g) : stack' = << Frame(g, rule, 1) >>
    /\ UNCHANGED << stream, pos, script, outs, last, text, shown, calls, once,
                    thread >>

\* The innermost call samples its next sub-generator.
Descend ==
    /\ stack # << >>
    /\ Len(stack) < MaxDepth
    /\ LET top == stack[Len(stack)]
           refs == Refs(top.gen, top.rule)
       IN  /\ top.next <= Len(refs)
           /\ \E rule \in Rules(refs[top.next]) :
                 stack' = Append([stack EXCEPT ![Len(stack)].next = @ + 1],
                                 Frame(refs[top.next], rule, 1))
    /\ UNCHANGED << stream, pos, script, outs, last, text, shown, calls, once,
                    thread >>

\* The innermost call has sampled all its sub-generators and returns.
Return ==
    /\ stack # << >>
    /\ LET top == stack[Len(stack)]
       IN  top.next > Len(Refs(top.gen, top.rule))
    /\ stack' = SubSeq(stack, 1, Len(stack) - 1)
    /\ UNCHANGED << stream, pos, script, outs, last, text, shown, calls, once,
                    thread >>

NextWalk ==
    \/ \E g \in CrateGenerators : Enter(g)
    \/ Descend
    \/ Return

\* A call that has begun goes on: it samples its next sub-generator or
\* returns.
SpecWalk == InitWalk /\ [][NextWalk]_vars /\ WF_vars(Descend \/ Return)

---------------------------------------------------------------------------
(* Samples of generators of the crate.  The longest of them makes ten      *)
(* draws, so the stream is a stream of TapeLen raw words taken round and   *)
(* round.                                                                  *)

\* Raw words a stream of this specification holds.
CatalogTapeLen == 10

\* The raw words of tape taken round and round, n of them.
Periodic(tape, n) == [ k \in 1 .. n |-> tape[((k - 1) % Len(tape)) + 1] ]

InitCatalog ==
    /\ stream \in { Periodic(t, CatalogTapeLen) : t \in Tapes }
    /\ pos = [ i \in Inst |-> seed_from_u64 ]
    /\ script = << >>
    /\ outs = [ i \in Inst |-> << >> ]
    /\ last = NoCall
    /\ text = << >>
    /\ shown = << >>
    /\ calls = [ i \in Inst |-> << >> ]
    /\ once = Lazy
    /\ thread = [ t \in Threads |-> Idle(0, << >>, << >>) ]
    /\ stack = << >>

\* The generators of the crate the caller samples itself.
CallerSamples ==
    { "util::AsciiDigit", "en_us::addresses::PostalCode", "lorem::Sentence",
      "fr_fr::addresses::PostalCode" }

NextCatalog == \E g \in CallerSamples : Sample(g)

SpecCatalog == InitCatalog /\ [][NextCatalog]_vars

---------------------------------------------------------------------------
(* A generator declared over any file.  text is the file; once is the      *)
(* static VALUES made of it.                                               *)

\* Longest file followed, in characters.
MaxFileLen == 4

\* The characters of the files followed.
FileChars == { "a", LF, CR }

RECURSIVE FilesUpTo(_)
FilesUpTo(n) ==
    IF n = 0 THEN { << >> }
    ELSE LET shorter == FilesUpTo(n - 1)
         IN  shorter \cup { Append(s, c) : s \in shorter, c \in FileChars }

\* The files followed: every text whose last character is no carriage
\* return.
Files == { f \in FilesUpTo(MaxFileLen) : f = << >> \/ f[Len(f)] # CR }

InitFile ==
    /\ stream = << >>
    /\ pos = [ i \in Inst |-> seed_from_u64 ]
    /\ script = << >>
    /\ outs = [ i \in Inst |-> << >> ]
    /\ last = NoCall
    /\ text \in Files
    /\ shown = << >>
    /\ calls = [ i \in Inst |-> << >> ]
    /\ once = Lazy
    /\ thread = [ t \in Threads |-> Idle(0, << >>, << >>) ]
    /\ stack = << >>

\* The first use of VALUES: include_str!(file).lines().map(String::from)
\* .collect()
Build ==
    /\ once.state = "INCOMPLETE"
    /\ once' = [state |-> "COMPLETE", value |-> lines(text), builds |-> 1]
    /\ UNCHANGED << stream, pos, script, outs, last, text, shown, calls,
                    thread, stack >>

\* $name(VALUES[rng.gen_range(0..VALUES.len())].clone()), on any raw word.
SampleFile ==
    /\ once.state = "COMPLETE"
    /\ last.res.ok
    /\ LET n == Len(once.value)
       IN  IF n = 0
           THEN last' = [inst |-> 1, gen |-> "$name", from |-> 0,
                         res |-> Failed(FALSE, 0, 0, << >>, << >>),
                         str |-> << >>]
           ELSE \E u \in Raw :
                   LET i == gen_range(u, n)
                       v == Element(once.value, i)
                   IN  last' = [inst |-> 1, gen |-> "$name", from |-> 0,
                                res |-> Done(v, 1, 0,
                                             << Draw("$name", n, 1, i) >>,
                                             << >>),
                                str |-> to_string(v)]
    /\ UNCHANGED << stream, pos, script, outs, text, shown, calls, once,
                    thread, stack >>

NextFile == Build \/ SampleFile

SpecFile == InitFile /\ [][NextFile]_vars

---------------------------------------------------------------------------
(* Properties.                                                             *)

Min(a, b) == IF a <= b THEN a ELSE b

\* The last call of Sample was a call of generator kind K that returned.
Returns(K) == last.gen \in K /\ last.res.ok

\* The pattern the last call chose, as the macro invocation declares it.
Chosen == Templates(last.gen)[last.res.rule]

C2_PoolSample ==
    Returns(FileGenerators) =>
        LET v == lines(DataFile(last.gen))
            d == last.res.draws
        IN  /\ Len(d) = 1
            /\ d[1].n = Len(v)
            /\ d[1].val \in 0 .. (Len(v) - 1)
            /\ d[1].val = gen_range(stream[last.from + 1], Len(v))
            /\ last.res.out = v[d[1].val + 1]
            /\ \E k \in 1 .. Len(v) : last.res.out = v[k]
            /\ last.res.pos = last.from + 1
            /\ \A k \in 1 .. Len(v) :
                  Cardinality({ u \in Raw : gen_range(u, Len(v)) = k - 1 }) * Len(v)
                      = RawRange

\* C2 witness: the last of the three words was drawn and returned.
C2_Witness ==
    /\ Returns({ "Word" })
    /\ last.res.draws[1].val = 2
    /\ last.res.out = << "a", "d" >>

\* C3: a sample of a generator made from n template patterns makes one
\* selection draw, over 0 .. n-1, and runs the one pattern at that index:
\* the sub-generators sampled are those of that pattern; each pattern is
\* selected for the same number of raw words.
C3_OneRulePerSample ==
    last.gen \in TemplateGenerators =>
        LET t == Templates(last.gen)
            n == Len(t)
            d == last.res.draws
        IN  /\ d[1].gen = last.gen /\ d[1].n = n /\ d[1].at = last.from + 1
            /\ d[1].val \in 0 .. (n - 1)
            /\ last.res.rule = d[1].val + 1
            /\ Cardinality({ k \in 1 .. Len(d) : d[k].gen = last.gen }) = 1
            /\ last.res.ok =>
                  [ j \in 1 .. Len(last.res.subs) |-> last.res.subs[j].gen ]
                      = Chosen.args
            /\ \A k \in 1 .. n :
                  Cardinality({ u \in Raw : choose(u, n) + 1 = k }) * n = RawRange

\* C3 witness: the second of Demo's two patterns was selected.
C3_Witness ==
    /\ Returns({ "Demo" })
    /\ last.res.rule = 2
    /\ last.res.draws[1].val = 1

\* C4: patterns are not deduplicated.  Biased lists "{}!" twice and "{}?"
\* once: the selection draw is over three entries and "{}!" is selected for
\* two of its three values, that is for two thirds of the raw words.
C4_DuplicateRuleBias ==
    last.gen = "Biased" =>
        LET t == Templates("Biased")
            d == last.res.draws[1]
        IN  /\ Len(t) = 3 /\ t[1] = t[2] /\ t[3] # t[1]
            /\ d.n = 3
            /\ (Chosen = t[1]) <=> (d.val \in { 0, 1 })
            /\ last.res.ok =>
                  ((last.res.out[Len(last.res.out)] = "!") <=> (d.val \in { 0, 1 }))
            /\ Cardinality({ v \in 0 .. (d.n - 1) : funcs("Biased")[v + 1] = t[1] }) = 2
            /\ Cardinality({ u \in Raw : t[choose(u, d.n) + 1] = t[1] }) * 3
                  = 2 * RawRange

\* C4 witness: the second listing of the duplicated pattern was selected.
C4_Witness ==
    /\ Returns({ "Biased" })
    /\ last.res.rule = 2
    /\ last.res.out[Len(last.res.out)] = "!"

RECURSIVE Segments(_)
\* The literal text of a format string: the pieces between its "{}".
Segments(fmt) ==
    IF \A i \in 1 .. (Len(fmt) - 1) : ~ (fmt[i] = "{" /\ fmt[i + 1] = "}")
    THEN << fmt >>
    ELSE LET k == CHOOSE i \in 1 .. (Len(fmt) - 1) :
                      /\ fmt[i] = "{" /\ fmt[i + 1] = "}"
                      /\ \A j \in 1 .. (i - 1) : ~ (fmt[j] = "{" /\ fmt[j + 1] = "}")
         IN  << SubSeq(fmt, 1, k - 1) >> \o Segments(SubSeq(fmt, k + 2, Len(fmt)))

RECURSIVE Interleave(_, _)
\* seg[1] args[1] seg[2] ... args[k] seg[k+1]
Interleave(segs, args) ==
    IF args = << >> THEN Head(segs)
    ELSE Head(segs) \o Head(args) \o Interleave(Tail(segs), Tail(args))

\* The output of the j-th sub-generator the chosen pattern lists.
SubOut(j) ==
    (CHOOSE s \in Range(last.res.subs) : s.ref = j).out

\* C5: the output of a template generator is the chosen pattern with its
\* i-th placeholder replaced by the output of the i-th sub-generator listed
\* and its literal text kept; "{}-{}" over ["x"] and ["y"] gives "x-y" and
\* "{} {}" over ["A"] and ["B"] gives "A B", from every generator state.
C5_Substitution ==
    Returns(TemplateGenerators) =>
        LET k == Len(Chosen.args)
        IN  /\ Len(Segments(Chosen.fmt)) = k + 1
            /\ Len(last.res.subs) = k
            /\ last.res.out =
                  Interleave(Segments(Chosen.fmt), [ j \in 1 .. k |-> SubOut(j) ])
            /\ last.gen = "XY" => last.res.out = << "x", "-", "y" >>
            /\ last.gen = "AB" => last.res.out = << "A", " ", "B" >>

\* C5 witness: XY was sampled, its two sub-generators returned "x" and
\* "y", and it returned "x-y".
C5_Witness ==
    /\ Returns({ "XY" })
    /\ SubOut(1) = << "x" >> /\ SubOut(2) = << "y" >>
    /\ last.res.out = << "x", "-", "y" >>

\* C6: in a sample of a template generator every sub-generator the chosen
\* pattern lists is sampled once, in the order listed: the j-th starts at
\* the generator state the (j-1)-th left, the first at the state after the
\* selection draw, and the draws of the call are consecutive.
C6_SubGeneratorOrder ==
    Returns(TemplateGenerators) =>
        LET a == Chosen.args
            s == last.res.subs
            d == last.res.draws
        IN  /\ Len(s) = Len(a)
            /\ \A j \in 1 .. Len(s) :
                  /\ s[j].ref = j
                  /\ s[j].gen = a[j]
                  /\ s[j].from < s[j].to
                  /\ s[j].from = IF j = 1 THEN last.from + 1 ELSE s[j - 1].to
            /\ s[Len(s)].to = last.res.pos
            /\ \A k \in 1 .. Len(d) : d[k].at = last.from + k
            /\ Len(d) = last.res.pos - last.from

\* C6 witness: Demo's second pattern sampled Word, then AsciiDigit.
C6_Witness ==
    /\ Returns({ "Demo" })
    /\ last.res.rule = 2
    /\ last.res.subs[1].gen = "Word" /\ last.res.subs[2].gen = "AsciiDigit"
    /\ last.res.subs[2].from = last.res.subs[1].to

\* C7, as claimed: CapitalizeFirstLetter<T> whose wrapped generator
\* returned the empty string returns the empty string and does not panic.
C7_CapitalizeEmptyReturnsEmpty ==
    ( /\ last.gen \in CapitalizeGenerators
      /\ Len(last.res.subs) = 1
      /\ last.res.subs[1].ok
      /\ last.res.subs[1].out = << >> )
        => (last.res.ok /\ last.res.out = << >>)

\* C8, as claimed: no sample call of a generator made from a file fails
\* because the file has no lines.
C8_EmptyPoolNeverFailsSample ==
    ~ ( /\ last.gen \in FileGenerators
        /\ Len(lines(DataFile(last.gen))) = 0
        /\ ~ last.res.ok )

\* The string the k-th transform applied to text was handed.
Handed(k) == IF k = 1 THEN text ELSE shown[k - 1].out

AsciiLetters ==
    { "a", "b", "c", "d", "e", "f", "g", "h", "i", "j", "k", "l", "m",
      "n", "o", "p", "q", "r", "s", "t", "u", "v", "w", "x", "y", "z" }

\* C9: ToAsciiLowercase returns, for every output of the wrapped generator,
\* a string of the letters a-z only; it returns the empty string when the
\* transliterated, lowercased output holds no such letter, and never panics.
C9_LowercaseOnlyLetters ==
    \A k \in 1 .. Len(shown) :
        shown[k].by = "ToAsciiLowercase" =>
            /\ shown[k].ok
            /\ \A c \in Range(shown[k].out) : c \in AsciiLetters
            /\ (\A c \in Range(to_lowercase(deunicode(Handed(k)))) : c \notin AsciiLetters)
                  => shown[k].out = << >>
            /\ Len(shown[k].out) =
                  Cardinality({ i \in 1 .. Len(to_lowercase(deunicode(Handed(k)))) :
                                  to_lowercase(deunicode(Handed(k)))[i] \in AsciiLetters })

\* C9 witness: a string with a letter outside ASCII, a digit and an
\* uppercase letter was transliterated, lowercased and stripped.
C9_Witness ==
    /\ text = << "U+00C9", "7", "B" >>
    /\ Len(shown) >= 1
    /\ shown[1] = Returned("ToAsciiLowercase", << "e", "b" >>)

\* C10: ToAsciiLowercase is idempotent: applied to its own output it
\* returns that output.
C10_LowercaseIdempotent ==
    \A k \in 2 .. Len(shown) :
        (shown[k].by = "ToAsciiLowercase" /\ shown[k - 1].by = "ToAsciiLowercase")
            => shown[k].out = shown[k - 1].out

\* C10 witness: the transform changed a string and, applied again, left its
\* own non-empty output as it was.
C10_Witness ==
    /\ Len(shown) = 2
    /\ shown[1].by = "ToAsciiLowercase" /\ shown[2].by = "ToAsciiLowercase"
    /\ shown[1].out # text /\ shown[1].out # << >>
    /\ shown[2].out = shown[1].out

\* C11: CapitalizeFirstLetter returns, for a wrapped output that is not
\* empty, the uppercase form of its first character (one character of the
\* string, whatever its encoded length, and possibly more than one
\* character long) followed by the other characters as they were.
C11_CapitalizeFirstOnly ==
    \A k \in 1 .. Len(shown) :
        (shown[k].by = "CapitalizeFirstLetter" /\ Handed(k) # << >>) =>
            LET s == Handed(k)
                o == shown[k].out
                up == Len(o) - (Len(s) - 1)
            IN  /\ shown[k].ok
                /\ up >= 1
                /\ SubSeq(o, 1, up) = to_uppercase_char(s[1])
                /\ SubSeq(o, up + 1, Len(o)) = SubSeq(s, 2, Len(s))
                /\ s[1] = "a" => o[1] = "A"
                /\ s[1] = "U+00E9" => (o[1] = "U+00C9" /\ up = 1)
                /\ s[1] = "U+00DF" => (up = 2 /\ o[1] = "S" /\ o[2] = "S")
                /\ s[1] \in { "B", "7", "-", " ", "U+5317" } => (up = 1 /\ o[1] = s[1])

\* C11 witness: a string that starts with a lowercase letter outside ASCII
\* and goes on with a lowercase and an uppercase letter was capitalized.
C11_Witness ==
    /\ text = << "U+00E9", "a", "B" >>
    /\ Len(shown) >= 1
    /\ shown[1] = Returned("CapitalizeFirstLetter", << "U+00C9", "a", "B" >>)

\* What the transform of wrapper g makes of the output s of its T.
Transformed(g, s) ==
    IF g \in LowercaseGenerators
    THEN Returned("ToAsciiLowercase", AsciiLowercaseFilter(s))
    ELSE CapitalizeFirst(s)

\* C12: a call of ToAsciiLowercase<T> or CapitalizeFirstLetter<T> samples T
\* once and draws nothing else: it leaves the generator state where a call
\* of T alone from the same state leaves it, its draws are the draws of
\* that call of T, and its result is the transform of the output of that
\* call of T (a return of the transformed string where the transform
\* returns, a panic where T or the transform panics).
C12_TransformSamplesOnce ==
    last.gen \in (LowercaseGenerators \cup CapitalizeGenerators) =>
        LET T == Wrapped(last.gen)
            alone == sample(T, stream, last.from)
            made == Transformed(last.gen, to_string(alone.out))
        IN  /\ last.res.pos = alone.pos
            /\ last.res.draws = alone.draws
            /\ Len(last.res.subs) = 1
            /\ last.res.subs[1].gen = T
            /\ last.res.subs[1].from = last.from
            /\ last.res.subs[1].to = alone.pos
            /\ last.res.ok <=> (alone.ok /\ made.ok)
            /\ last.res.ok => last.res.out = made.out

\* C12 witness: ToAsciiLowercase<LastName> was called from a state one draw
\* after the seed, drew once and returned the filtered last name.
C12_Witness ==
    /\ last.gen = "ToAsciiLowercase<LastName>"
    /\ last.res.ok
    /\ last.from = 1
    /\ last.res.pos = 2
    /\ last.res.out = << "s", "s", "z" >>
    /\ sample("LastName", stream, 1).out = << "U+00DF", "-", "Z" >>

\* C17: to_string of the value a call returned is the string the call
\* produced, character for character, with nothing added, removed or
\* escaped, for generators made from a file, from templates and for both
\* wrappers; an apostrophe and a character outside ASCII are kept as they
\* are.
C17_DisplayIsPlain ==
    /\ Returns(Generators) =>
          /\ last.str = last.res.out
          /\ Len(last.str) = Len(last.res.out)
          /\ \A c \in { "\"", "\\" } : c \notin Range(last.str)
    /\ \A K \in { FileGenerators, TemplateGenerators, LowercaseGenerators,
                  CapitalizeGenerators } :
          Returns(K) => \A i \in 1 .. Len(last.res.out) :
                            last.str[i] = last.res.out[i]
    /\ (Returns({ "LastName" }) /\ last.res.draws[1].val = 4) =>
          last.str = << "O", "'", "k" >>
    /\ (Returns({ "LastName" }) /\ last.res.draws[1].val = 0) =>
          last.str = << "U+00C9", "b" >>

\* C17 witness: a last name with an apostrophe was returned and converted.
C17_Witness ==
    /\ Returns({ "LastName" })
    /\ last.res.out = << "O", "'", "k" >>
    /\ last.str = << "O", "'", "k" >>

\* The generators a call of g can sample, g itself included.
RECURSIVE CanSample(_)
CanSample(g) ==
    { g } \cup
    (CASE Catalog[g].kind = "file" -> { }
       [] Catalog[g].kind = "templates" ->
             UNION { CanSample(a) : a \in Range(AllArgs(Catalog[g].rules)) }
       [] OTHER -> CanSample(Catalog[g].inner))

\* The generators a call of the pattern the last call chose can sample.
UnderChosen == UNION { CanSample(a) : a \in Range(Chosen.args) }

\* C20: in a call of a generator made from templates the selection draw is
\* the first draw made, at the position next to the state the call started
\* from; every sub-generator is sampled from a later state, the first of
\* them from the state right after the selection draw; and every
\* sub-generator sampled and every further draw made belongs to the
\* pattern selected: with Biased, a call that selects "{}?" samples
\* AsciiDigit and never Word, and a call that selects "{}!" samples Word
\* and never AsciiDigit.
C20_SelectionDrawFirst ==
    last.gen \in TemplateGenerators =>
        LET d == last.res.draws
            s == last.res.subs
        IN  /\ Len(d) >= 1
            /\ d[1].gen = last.gen
            /\ d[1].at = last.from + 1
            /\ \A k \in 2 .. Len(d) :
                  /\ d[k].at > d[1].at
                  /\ d[k].at = d[k - 1].at + 1
                  /\ d[k].gen \in UnderChosen
            /\ \A j \in 1 .. Len(s) :
                  /\ s[j].from >= last.from + 1
                  /\ s[j].gen \in Range(Chosen.args)
                  /\ s[j].gen = Chosen.args[s[j].ref]
            /\ s # << >> => s[1].from = last.from + 1
            /\ Len(s) <= Len(Chosen.args)
            /\ last.res.pos - last.from = Len(d)
            /\ (last.gen = "Biased" /\ last.res.rule = 3) =>
                  \A k \in 2 .. Len(d) : d[k].gen = "AsciiDigit"
            /\ (last.gen = "Biased" /\ last.res.rule \in { 1, 2 }) =>
                  \A k \in 2 .. Len(d) : d[k].gen = "Word"

\* C20 witness: Biased selected its third pattern with the first draw and
\* made one more draw, for AsciiDigit, the generator of that pattern alone.
C20_Witness ==
    /\ Returns({ "Biased" })
    /\ last.res.rule = 3
    /\ Len(last.res.draws) = 2
    /\ last.res.draws[1].gen = "Biased"
    /\ last.res.draws[2].gen = "AsciiDigit"
    /\ "Word" \in Range(AllArgs(Templates("Biased")))

\* The outputs of the calls gs made one after the other by a caller alone,
\* from generator state p.
RECURSIVE Alone(_, _)
Alone(gs, p) ==
    IF gs = << >> THEN << >>
    ELSE LET r == sample(Head(gs), stream, p)
         IN  << to_string(r.out) >> \o Alone(Tail(gs), r.pos)

Readers == { t \in Threads : thread[t].reads > 0 }

\* C13: the static VALUES is initialised once however many threads make
\* their first sample together: the initialiser runs at most once and one
\* thread at a time; a thread reads VALUES only when the Once is complete
\* and the value is the whole list of lines; and every sample of every
\* thread read the same list, the lines of the file.
C13_LazyInitOnce ==
    /\ once.builds <= 1
    /\ Cardinality({ t \in Threads : thread[t].pc \in { "collect", "complete" } })
          <= 1
    /\ once.state = "COMPLETE" => once.builds = 1
    /\ \A t \in Threads :
          thread[t].pc = "index" =>
              /\ once.state = "COMPLETE"
              /\ once.value = lines(DataFile(LazyPool))
    /\ \A t \in Readers :
          /\ thread[t].view = lines(DataFile(LazyPool))
          /\ thread[t].seen \in Range(lines(DataFile(LazyPool)))
    /\ \A t1, t2 \in Readers : thread[t1].view = thread[t2].view

\* C13 witness: one thread ran the initialiser while the two others were
\* blocked on the Once, and all three have since sampled.
C13_Witness ==
    /\ once.builds = 1
    /\ Readers = Threads
    /\ thread["t2"].reads = MaxReads
    /\ thread["t1"].seen # thread["t3"].seen

\* C15: a sample changes nothing but the state of the caller's generator:
\* once VALUES is initialised no step of any sample of any thread changes
\* it, so after any number of samples it holds the lines of the file in
\* the order of the file.
C15_SampleLeavesPoolAlone ==
    [][ once.state = "COMPLETE" =>
            /\ once' = once
            /\ once'.value = lines(DataFile(LazyPool)) ]_vars

\* C15 witness: every thread made all its samples and VALUES is the list
\* that was built.
C15_Witness ==
    /\ \A t \in Threads : thread[t].reads = MaxReads
    /\ once.state = "COMPLETE"
    /\ once.value = << << "q", "u", "i" >>, << "e", "t" >>, << "a", "d" >> >>

\* The generators of the calls that have begun and not returned.
OnStack == { stack[k].gen : k \in 1 .. Len(stack) }

\* The nest of calls is sound: no generator is entered while a call of it
\* is under way, the nest stays below the depth followed, every generator
\* referred to is a generator of the crate, and a call with nothing to
\* sample is a call of a file generator.
WalkSound ==
    /\ Cardinality(OnStack) = Len(stack)
    /\ Len(stack) < MaxDepth
    /\ Len(stack) <= Cardinality(CrateGenerators)
    /\ \A k \in 1 .. Len(stack) :
          LET refs == Refs(stack[k].gen, stack[k].rule)
          IN  /\ Range(refs) \subseteq CrateGenerators
              /\ stack[k].next <= Len(refs) + 1
              /\ refs = << >> <=> stack[k].gen \in CrateFileGenerators
              /\ k < Len(stack) => stack[k + 1].gen = refs[stack[k].next - 1]

\* C16: every sample of every generator of the crate ends.  The generators
\* are finitely many; no generator is reached from itself (none is entered
\* while a call of it is under way); the innermost call that samples
\* nothing is a call of a file generator; and every call that has begun
\* returns to the caller.
C16_SamplingTerminates ==
    /\ IsFiniteSet(CrateGenerators)
    /\ [] WalkSound
    /\ (stack # << >>) ~> (stack = << >>)

\* C16 witness: a call of lorem::Paragraphs has gone down to the list of
\* words, six calls deep: Paragraphs, Paragraph, Sentence, FirstWord,
\* CapitalizeFirstLetter<Word>, Word.
C16_Witness ==
    /\ Len(stack) = 6
    /\ stack[1].gen = "lorem::Paragraphs"
    /\ stack[2].gen = "lorem::Paragraph"
    /\ stack[3].gen = "lorem::Sentence"
    /\ stack[4].gen = "lorem::FirstWord"
    /\ stack[5].gen = "CapitalizeFirstLetter<lorem::Word>"
    /\ stack[6].gen = "lorem::Word"
    /\ stack[6].next = 1

Digits == { "0", "1", "2", "3", "4", "5", "6", "7", "8", "9" }

\* s is n digits and nothing else.
IsDigits(s, n) == Len(s) = n /\ \A k \in 1 .. n : s[k] \in Digits

\* C18: with the ten digits as the lines of AsciiDigit's file, a sample of
\* en_us::addresses::PostalCode is five digits, or five digits, a hyphen
\* and four digits, and nothing else: the first pattern gives the short
\* shape and the second the long one.
C18_PostalCodeShape ==
    ( /\ Range(VALUES("util::AsciiDigit")) = { << d >> : d \in Digits }
      /\ Len(VALUES("util::AsciiDigit")) = Cardinality(Digits)
      /\ Returns({ "en_us::addresses::PostalCode" }) ) =>
        LET o == last.res.out
        IN  /\ \/ IsDigits(o, 5)
               \/ /\ Len(o) = 10
                  /\ IsDigits(SubSeq(o, 1, 5), 5)
                  /\ o[6] = "-"
                  /\ IsDigits(SubSeq(o, 7, 10), 4)
            /\ last.res.rule = 1 <=> Len(o) = 5
            /\ last.res.rule = 2 <=> Len(o) = 10
            /\ last.str = o

\* C18 witness: a postal code of the long shape was returned.
C18_Witness ==
    /\ Returns({ "en_us::addresses::PostalCode" })
    /\ last.res.rule = 2
    /\ last.res.out = << "8", "0", "5", "8", "0", "-", "5", "8", "0", "5" >>
    /\ Len(VALUES("util::AsciiDigit")) = 10

\* The pieces of s between the occurrences of the character sep.
RECURSIVE Split(_, _)
Split(s, sep) ==
    IF sep \notin Range(s) THEN << s >>
    ELSE LET k == CHOOSE i \in 1 .. Len(s) :
                      s[i] = sep /\ \A j \in 1 .. (i - 1) : s[j] # sep
         IN  << SubSeq(s, 1, k - 1) >> \o Split(SubSeq(s, k + 1, Len(s)), sep)

\* The lines of Word's file are lowercase words: not empty, ASCII lowercase
\* letters only.
WordsAreLowercase ==
    \A w \in Range(VALUES("lorem::Word")) :
        w # << >> /\ Range(w) \subseteq AsciiLetters

\* C19: with lowercase words as the lines of Word's file, a sample of
\* lorem::Sentence is three to seven words with one space between each two
\* and one full stop at the end, and no other full stop; the first word is
\* a word of the file with its first letter in upper case and the rest as
\* it is, and every later word is a word of the file as it is.
C19_SentenceShape ==
    (WordsAreLowercase /\ Returns({ "lorem::Sentence" })) =>
        LET o == last.res.out
            pool == Range(VALUES("lorem::Word"))
            body == SubSeq(o, 1, Len(o) - 1)
            w == Split(body, " ")
        IN  /\ Len(o) >= 1
            /\ o[Len(o)] = "."
            /\ "." \notin Range(body)
            /\ Len(w) \in 3 .. 7
            /\ Len(w) = last.res.rule + 2
            /\ \A k \in 1 .. Len(w) : w[k] # << >>
            /\ \E p \in pool :
                  /\ w[1] = << Upper[IndexOf(Lower, p[1])] >> \o Tail(p)
                  /\ w[1] # p
            /\ \A k \in 2 .. Len(w) : w[k] \in pool

\* C19 witness: a sentence of seven words was returned, its first word a
\* capitalised word of three letters.
C19_Witness ==
    /\ Returns({ "lorem::Sentence" })
    /\ last.res.rule = 5
    /\ Len(Split(last.res.out, " ")) = 7
    /\ SubSeq(last.res.out, 1, 4) = << "Q", "u", "i", " " >>
    /\ last.res.out[Len(last.res.out)] = "."

\* The generators sampled that are made from one pattern.
OnePattern ==
    { g \in DOMAIN Catalog :
          Catalog[g].kind = "templates" /\ Len(Catalog[g].rules) = 1 }

\* C21: a generator made from one pattern makes a selection draw all the
\* same, over the one entry, and it is the first draw of the call; so the
\* first sub-generator of the pattern is sampled from the state one draw
\* after the state the call started from, and its draw takes the raw word
\* after the one the same sub-generator takes when it is sampled from the
\* state the call started from.  fr_fr's PostalCode makes six draws for its
\* five digits.
C21_OnePatternStillDraws ==
    last.gen \in OnePattern =>
        LET d == last.res.draws
            s == last.res.subs
            first == Catalog[last.gen].rules[1].args[1]
            direct == sample(first, stream, last.from)
        IN  /\ d[1] = Draw(last.gen, 1, last.from + 1, 0)
            /\ last.res.rule = 1
            /\ s # << >>
            /\ s[1].gen = first
            /\ s[1].from = last.from + 1
            /\ s[1].from > last.from
            /\ last.res.pos > s[1].from
            /\ d[2].gen = first => d[2].at = direct.draws[1].at + 1
            /\ direct.draws[1].at = d[1].at
            /\ (last.res.ok /\ last.gen = "fr_fr::addresses::PostalCode") =>
                  /\ Len(last.res.out) = 5
                  /\ last.res.pos - last.from = 6

\* C21 witness: fr_fr's PostalCode was sampled from the seed state and its
\* first digit is not the digit AsciiDigit alone gives from that state.
C21_Witness ==
    /\ Returns({ "fr_fr::addresses::PostalCode" })
    /\ last.from = 0
    /\ last.res.pos = 6
    /\ << last.res.out[1] >> # sample("util::AsciiDigit", stream, 0).out
    /\ last.res.subs[1].out = sample("util::AsciiDigit", stream, 1).out

\* The line feeds of the file f.
LineFeeds(f) == { k \in 1 .. Len(f) : f[k] = LF }

\* The elements v one after the other, a line feed after each but the last.
RECURSIVE Joined(_)
Joined(v) ==
    IF v = << >> THEN << >>
    ELSE IF Len(v) = 1 THEN v[1]
    ELSE v[1] \o << LF >> \o Joined(Tail(v))

\* The file f without the carriage returns that stand before a line feed.
Unreturned(f) ==
    LET keep == { k \in 1 .. Len(f) :
                      ~ (f[k] = CR /\ k < Len(f) /\ f[k + 1] = LF) }
        RECURSIVE Kept(_)
        Kept(k) == IF k > Len(f) THEN << >>
                   ELSE (IF k \in keep THEN << f[k] >> ELSE << >>) \o Kept(k + 1)
    IN  Kept(1)

\* C22: VALUES holds one element for each line of the file, in the order
\* of the file and without the line terminator: as many elements as the
\* file has line feeds, and one more when text follows the last line feed;
\* a line feed at the end of the file adds no element; the elements put
\* together again with line feeds are the file; a line with nothing on it
\* is the empty string as an element; and what a sample returns is one of
\* the elements.
C22_OneElementPerLine ==
    once.state = "COMPLETE" =>
        LET v == once.value
            ended == text # << >> /\ text[Len(text)] = LF
        IN  /\ Len(v) = Cardinality(LineFeeds(text))
                          + (IF text # << >> /\ ~ ended THEN 1 ELSE 0)
            /\ \A k \in 1 .. Len(v) : LF \notin Range(v[k])
            /\ Joined(v) \o (IF ended THEN << LF >> ELSE << >>)
                  = Unreturned(text)
            /\ (\E k \in LineFeeds(text) : k = 1 \/ text[k - 1] = LF) =>
                  << >> \in Range(v)
            /\ text = << "a", LF >> => v = << << "a" >> >>
            /\ text = << "a", LF, LF, "a" >>
                  => v = << << "a" >>, << >>, << "a" >> >>
            /\ text = << "a", CR, LF, "a" >> => v = << << "a" >>, << "a" >> >>
            /\ Returns({ "$name" }) => last.res.out \in Range(v)

\* C22 witness: the file is a line, two blank lines and a line feed at the
\* end of the last; VALUES has three elements and a sample returned the
\* empty string.
C22_Witness ==
    /\ text = << "a", LF, LF, LF >>
    /\ once.value = << << "a" >>, << >>, << >> >>
    /\ Returns({ "$name" })
    /\ last.res.out = << >>
    /\ last.res.draws[1].n = 3

\* The placeholders "{}" of the format string fmt.
Placeholders(fmt) ==
    { k \in 1 .. (Len(fmt) - 1) : fmt[k] = "{" /\ fmt[k + 1] = "}" }

\* Every brace of fmt is part of a placeholder.
BracesPaired(fmt) ==
    \A k \in 1 .. Len(fmt) :
        /\ fmt[k] = "{" => k \in Placeholders(fmt)
        /\ fmt[k] = "}" => (k > 1 /\ (k - 1) \in Placeholders(fmt))

\* C23: every generator the crate makes from templates has at least one
\* pattern, and every pattern of every one of them has as many
\* placeholders as it lists generators, every brace being part of a
\* placeholder; so in every call under way the pattern selected has a
\* generator for each placeholder and a placeholder for each generator
\* sampled.
C23_PlaceholdersMatchGenerators ==
    /\ \A g \in CrateTemplateGenerators :
          /\ Len(Crate[g].rules) >= 1
          /\ \A r \in 1 .. Len(Crate[g].rules) :
                /\ Cardinality(Placeholders(Crate[g].rules[r].fmt))
                      = Len(Crate[g].rules[r].args)
                /\ BracesPaired(Crate[g].rules[r].fmt)
                /\ Len(Crate[g].rules[r].args) >= 1
    /\ \A k \in 1 .. Len(stack) :
          stack[k].gen \in CrateTemplateGenerators =>
              /\ stack[k].rule \in 1 .. Len(Crate[stack[k].gen].rules)
              /\ Cardinality(Placeholders(
                     Crate[stack[k].gen].rules[stack[k].rule].fmt))
                    = Len(Refs(stack[k].gen, stack[k].rule))
              /\ stack[k].next - 1 <= Cardinality(Placeholders(
                     Crate[stack[k].gen].rules[stack[k].rule].fmt))

\* C23 witness: a call of en_us's Address selected its second pattern, of
\* six placeholders, and has sampled the six generators it lists.
C23_Witness ==
    /\ stack = << Frame("en_us::addresses::Address", 2, 7) >>
    /\ Cardinality(Placeholders(
           Crate["en_us::addresses::Address"].rules[2].fmt)) = 6
    /\ Crate["en_us::addresses::PostalCode"].rules[2].fmt[11] = "-"

=============================================================================
